---- MODULE Spec2Model ----
(***************************************************************************)
(* Model of ros/src/tl_detector/tl_detector.py: the traffic light detector *)
(* node (Detector, ImageDetector, DummyDetector).                          *)
(*                                                                         *)
(* Python values:                                                          *)
(*   - an attribute that may be None is a sequence of length <= 1:         *)
(*     None is <<>> and a value v is <<v>> (Some(v)); so a stored empty    *)
(*     waypoint list is << <<>> >>, different from None;                   *)
(*   - list indices are Python's, from 0: the i-th waypoint is wps[i + 1]; *)
(*   - coordinates are floats in the code; here a coordinate is an integer *)
(*     number of 1/Scale units, so that int() truncation is not the        *)
(*     identity;                                                           *)
(*   - distance() is compared through its square: sqrt is strictly         *)
(*     monotone on the small integers used here.                           *)
(***************************************************************************)
EXTENDS Integers, Sequences, FiniteSets, TLC

VARIABLES
    variant,               \* "image" (ImageDetector) or "dummy" (DummyDetector), chosen at start-up
    stop_line_positions,   \* the 'stop_line_positions' list of /traffic_light_config
    state,                 \* self.state
    state_count,           \* self.state_count
    last_stop_line,        \* self.last_stop_line
    shared_car_index,      \* self.shared_car_index
    shared_waypoints,      \* self.shared_waypoints
    shared_stop_lines,     \* self.shared_stop_lines
    shared_camera_image,   \* ImageDetector.shared_camera_image
    shared_traffic_lights, \* DummyDetector.shared_traffic_lights
    tl_map,                \* DummyDetector.tl_map
    pc,                    \* position of the control loop inside Detector.loop
    stop_line,             \* local 'stop_line' of loop
    camera_image,          \* local 'camera_image' of ImageDetector.get_traffic_light_state
    pub_msg,               \* the TrafficWaypoint the last step published, None if it published none
    fault,                 \* the exception the last step raised, "none" if it returned
    h_last,                \* observer: which step was the last one
    h_route,               \* observer: msg.waypoints of the route message the last step handled, None if it handled none
    h_raw,                 \* observer: raw state sampled by the last iteration that had a stop line
    h_line,                \* observer: stop line of that iteration
    h_run,                 \* observer: length of the current run of identical raw states
    h_line_run,            \* observer: length of the current run of identical (raw state, stop line)
    h_pubs                 \* observer: events published during the current (raw state, stop line) run

vars == <<variant, stop_line_positions, state, state_count, last_stop_line,
          shared_car_index, shared_waypoints, shared_stop_lines,
          shared_camera_image, shared_traffic_lights, tl_map,
          pc, stop_line, camera_image, pub_msg, fault,
          h_last, h_route, h_raw, h_line, h_run, h_line_run, h_pubs>>

----------------------------------------------------------------------------
(* Python's None and optional values *)
None == <<>>
Some(v) == <<v>>
Val(o) == o[1]

(* styx_msgs/TrafficLight state constants, by name *)
RED == "RED"
YELLOW == "YELLOW"
GREEN == "GREEN"
UNKNOWN == "UNKNOWN"

STATE_COUNT_THRESHOLD == 3
RelevanceRadius == 150

----------------------------------------------------------------------------
(* Bounds of the model *)
Scale == 2          \* coordinates are counted in 1/Scale units
MaxCount == 5       \* the loop stops incrementing state_count here
MaxRun == 4         \* the run-length observers saturate here
MaxPubs == 2        \* the observer of publications per run saturates here

Min(a, b) == IF a < b THEN a ELSE b

(* Point(x, y), with x and y in whole units *)
Point(x, y) == [x |-> x * Scale, y |-> y * Scale]
(* a position with coordinates given in 1/Scale units *)
RawPoint(xs, ys) == [x |-> xs, y |-> ys]

W0 == Point(0, 0)
W1 == Point(100, 0)
W2 == Point(200, 0)
W3 == Point(300, 0)

(* The /base_waypoints messages delivered: the waypoint positions of each *)
Routes == { <<>>,
            <<W0, W1>>,
            <<W0, W1, W2, W3>> }

(* The /current_pose positions delivered *)
Poses == { W0, Point(50, 0), W2, W3 }

(* The values of stop_line_positions the node may be configured with: none,
   or three positions that are not in route order, two of them closest to
   the same waypoint *)
StopLineConfigs == { <<>>,
                     <<W2, W1, Point(110, 0)>> }

(* /image_color frames, by identity *)
Frames == { "f1", "f2" }

(* TLClassifier.get_classification, external: a function of the frame; in
   the runs explored frame f1 shows a red light and frame f2 a green one *)
get_classification(frame) == IF frame = "f1" THEN RED ELSE GREEN

(* /vehicle/traffic_lights messages: lights are [position, state] *)
Light(p, s) == [position |-> p, state |-> s]
LA == Point(200, 0)
LAj == RawPoint(200 * Scale + 1, 0)      \* LA moved by less than one unit: same int() key
LAk == Point(201, 0)                     \* LA moved by one unit: another key
LB == Point(100, 0)
LightArrays == { <<Light(LAj, GREEN)>>,
                 <<Light(LAk, RED)>>,
                 <<Light(LA, RED), Light(LB, GREEN)>> }

----------------------------------------------------------------------------
(* distance(point1, point2), squared *)
distance2(point1, point2) ==
    (point1.x - point2.x) * (point1.x - point2.x)
  + (point1.y - point2.y) * (point1.y - point2.y)

(* Python's int() on a float: truncation towards zero *)
PyInt(c) == IF c >= 0 THEN (c \div Scale) ELSE -((-c) \div Scale)

(* get_light_point(light): the quantized key of a light *)
get_light_point(light) ==
    [x |-> PyInt(light.position.x), y |-> PyInt(light.position.y)]

(* Detector.get_closest_waypoint over a waypoint list wps (None or Some(list)):
   the first index of minimum distance, -1 without waypoints *)
RECURSIVE closest_scan(_, _, _, _, _)
closest_scan(wps, point, i, closest_dist, closest_index) ==
    IF i >= Len(wps) THEN closest_index
    ELSE LET dist == distance2(wps[i + 1], point)
         IN IF closest_dist = None \/ dist < Val(closest_dist)
              THEN closest_scan(wps, point, i + 1, Some(dist), i)
              ELSE closest_scan(wps, point, i + 1, closest_dist, closest_index)

get_closest_waypoint(waypoints, point) ==
    IF waypoints = None \/ Len(Val(waypoints)) = 0 THEN -1
    ELSE closest_scan(Val(waypoints), point, 0, None, -1)

(* Mutant of SortList: the sort() of line 116 is missing *)
SortListMissing(s) == s

(* list.sort() of a list of integers *)
SortList(s) == SortSeq(s, LAMBDA a, b: a < b)

(* Mutant of first_after: 'index >= self.shared_car_index' at line 148 *)
RECURSIVE first_after_ge(_, _, _)
first_after_ge(lines, car_index, k) ==
    IF k > Len(lines) THEN None
    ELSE IF lines[k] >= car_index THEN Some(lines[k])
    ELSE first_after_ge(lines, car_index, k + 1)

(* The loop of Detector.get_stop_line over the sorted list, from position k *)
RECURSIVE first_after(_, _, _)
first_after(lines, car_index, k) ==
    IF k > Len(lines) THEN None
    ELSE IF lines[k] > car_index THEN Some(lines[k])
    ELSE first_after(lines, car_index, k + 1)

(* Detector.get_stop_line *)
get_stop_line(car_index, lines) ==
    IF car_index = None THEN None
    ELSE first_after(Val(lines), Val(car_index), 1)

(* The forward scan of Detector.pose_cb from index i with current_dist *)
RECURSIVE pose_scan(_, _, _, _)
pose_scan(wps, position, i, current_dist) ==
    IF i + 1 >= Len(wps) THEN i
    ELSE LET dist == distance2(position, wps[i + 2])
         IN IF dist > current_dist THEN i
            ELSE pose_scan(wps, position, i + 1, dist)

(* Mutant of pose_start: '>=' for '>' at line 83 *)
pose_start_ge(car_index, lines) ==
    IF car_index = None \/ Val(car_index) >= lines[Len(lines)] THEN 0
    ELSE Val(car_index)

(* The index pose_cb starts its scan from *)
pose_start(car_index, lines) ==
    IF car_index = None \/ Val(car_index) > lines[Len(lines)] THEN 0
    ELSE Val(car_index)


(* dict[key] = value *)
Put(d, key, value) ==
    [k \in (DOMAIN d) \cup {key} |-> IF k = key THEN value ELSE d[k]]

(* LightData(index, state) *)
LightData(index, light_state) == [index |-> index, state |-> light_state]

(* The first branch of DummyDetector.traffic_cb: bind every light of the
   message, from position k on, into the two dictionaries *)
RECURSIVE bind_lights(_, _, _, _, _)
bind_lights(waypoints, lights, k, tls, map) ==
    IF k > Len(lights) THEN [tls |-> tls, map |-> map]
    ELSE LET light == lights[k]
             point == get_light_point(light)
             index == get_closest_waypoint(waypoints, light.position)
         IN bind_lights(waypoints, lights, k + 1,
                        Put(tls, point, LightData(index, light.state)),
                        Put(map, index, point))

(* Mutant of update_lights: a light whose key is not bound is bound to the
   waypoint closest to it on the route loaded now *)
RECURSIVE update_lights_binding(_, _, _)
update_lights_binding(lights, k, tls) ==
    IF k > Len(lights) THEN [tls |-> tls, raised |-> FALSE]
    ELSE LET light == lights[k]
             point == get_light_point(light)
         IN IF point \notin DOMAIN tls
              THEN update_lights_binding(lights, k + 1,
                       Put(tls, point, LightData(0, light.state)))
              ELSE update_lights_binding(lights, k + 1,
                       Put(tls, point, LightData(tls[point].index, light.state)))

(* The else branch of DummyDetector.traffic_cb: overwrite the state of each
   light in turn; a key that is not bound raises KeyError and ends the loop *)
RECURSIVE update_lights(_, _, _)
update_lights(lights, k, tls) ==
    IF k > Len(lights) THEN [tls |-> tls, raised |-> FALSE]
    ELSE LET light == lights[k]
             point == get_light_point(light)
         IN IF point \notin DOMAIN tls THEN [tls |-> tls, raised |-> TRUE]
            ELSE update_lights(lights, k + 1,
                     Put(tls, point, LightData(tls[point].index, light.state)))

(* sorted(keys) of a set of integers *)
RECURSIVE SortedKeys(_)
SortedKeys(S) ==
    IF S = {} THEN <<>>
    ELSE LET m == CHOOSE a \in S : \A b \in S : a <= b
         IN <<m>> \o SortedKeys(S \ {m})

(* Python 2 ordering of an int against an attribute that may be None:
   None is smaller than every integer *)
PyGreater(index, car_index) == car_index = None \/ index > Val(car_index)

(* The search loop of DummyDetector.get_traffic_light_state *)
RECURSIVE first_light_after(_, _, _)
first_light_after(keys, car_index, k) ==
    IF k > Len(keys) THEN None
    ELSE IF PyGreater(keys[k], car_index) THEN Some(keys[k])
    ELSE first_light_after(keys, car_index, k + 1)

(* list[i] in Python: does it raise IndexError, and the element if not *)
IndexRaises(list, i) == i >= Len(list) \/ i < -Len(list)
PyItem(list, i) == IF i >= 0 THEN list[i + 1] ELSE list[Len(list) + i + 1]

(* Outcomes of get_traffic_light_state *)
Returns(s) == [raised |-> "none", value |-> s]
Raises(e) == [raised |-> e, value |-> UNKNOWN]

(* DummyDetector.get_traffic_light_state, on the shared state given *)
dummy_light_state(waypoints, car_index, tls, map) ==
    IF tls = None THEN Returns(UNKNOWN)
    ELSE LET tl_index == first_light_after(SortedKeys(DOMAIN map), car_index, 1)
         IN IF tl_index = None THEN Returns(UNKNOWN)
            ELSE LET wps == Val(waypoints)
                 IN IF IndexRaises(wps, Val(tl_index)) THEN Raises("IndexError")
                    ELSE IF car_index = None THEN Raises("TypeError")
                    ELSE IF IndexRaises(wps, Val(car_index)) THEN Raises("IndexError")
                    ELSE IF distance2(PyItem(wps, Val(tl_index)), PyItem(wps, Val(car_index)))
                              > (RelevanceRadius * Scale) * (RelevanceRadius * Scale)
                           THEN Returns(UNKNOWN)
                    ELSE Returns(Val(tls)[map[Val(tl_index)]].state)

(* ImageDetector.get_traffic_light_state on the frame given: the states it
   may return *)
image_light_state(image) ==
    IF image = None THEN {UNKNOWN} ELSE {get_classification(Val(image))}

(* Mutants of publish_cond: the threshold reached one tick early; the
   republication without the change of stop line; no republication *)
publish_cond_early(count, last_line, line) ==
    \/ count = STATE_COUNT_THRESHOLD - 1
    \/ (count > STATE_COUNT_THRESHOLD /\ last_line # Some(line))

publish_cond_always(count, last_line, line) ==
    count >= STATE_COUNT_THRESHOLD

publish_cond_once(count, last_line, line) ==
    count = STATE_COUNT_THRESHOLD

(* The publish condition of Detector.loop, lines 69-71 *)
publish_cond(count, last_line, line) ==
    \/ count = STATE_COUNT_THRESHOLD
    \/ (count > STATE_COUNT_THRESHOLD /\ last_line # Some(line))

----------------------------------------------------------------------------
Init ==
    /\ variant \in {"image", "dummy"}
    /\ stop_line_positions \in StopLineConfigs
    /\ state = UNKNOWN
    /\ state_count = 0
    /\ last_stop_line = None
    /\ shared_car_index = None
    /\ shared_waypoints = None
    /\ shared_stop_lines = None
    /\ shared_camera_image = None
    /\ shared_traffic_lights = None
    /\ tl_map = <<>>
    /\ pc = "sleep"
    /\ stop_line = None
    /\ camera_image = None
    /\ pub_msg = None
    /\ fault = "none"
    /\ h_last = "init"
    /\ h_route = None
    /\ h_raw = None
    /\ h_line = None
    /\ h_run = 0
    /\ h_line_run = 0
    /\ h_pubs = 0

(* An exception that leaves loop() ends the node *)
Running == pc # "crashed"

config_vars == <<variant, stop_line_positions>>
debounce_vars == <<state, state_count, last_stop_line>>
loop_vars == <<debounce_vars, pc, stop_line, camera_image>>
run_hist == <<h_raw, h_line, h_run, h_line_run, h_pubs>>
shared_vars == <<shared_car_index, shared_waypoints, shared_stop_lines,
                 shared_camera_image, shared_traffic_lights, tl_map>>

(* A step that returns without publishing *)
Quiet == pub_msg' = None /\ fault' = "none"

(* Mutant of waypoints_cb: the route is loaded once, a later message does
   not replace the stored one *)
waypoints_cb_once(wps) ==
    /\ Running
    /\ shared_car_index' = None
    /\ IF Len(stop_line_positions) = 0 \/ shared_waypoints # None
         THEN UNCHANGED <<shared_waypoints, shared_stop_lines>>
         ELSE /\ shared_waypoints' = Some(wps)
              /\ shared_stop_lines' =
                    Some(SortList([k \in DOMAIN stop_line_positions |->
                            get_closest_waypoint(Some(wps), stop_line_positions[k])]))
    /\ Quiet
    /\ h_last' = "waypoints_cb"
    /\ h_route' = Some(wps)
    /\ UNCHANGED <<config_vars, loop_vars, shared_camera_image,
                   shared_traffic_lights, tl_map, run_hist>>

(* Detector.waypoints_cb(msg), msg.waypoints at the positions wps *)
waypoints_cb(wps) ==
    /\ Running
    /\ shared_car_index' = None
    /\ IF Len(stop_line_positions) = 0
         THEN UNCHANGED <<shared_waypoints, shared_stop_lines>>
         ELSE /\ shared_waypoints' = Some(wps)
              /\ shared_stop_lines' =
                    Some(SortList([k \in DOMAIN stop_line_positions |->
                            get_closest_waypoint(Some(wps), stop_line_positions[k])]))
    /\ Quiet
    /\ h_last' = "waypoints_cb"
    /\ h_route' = Some(wps)
    /\ UNCHANGED <<config_vars, loop_vars, shared_camera_image,
                   shared_traffic_lights, tl_map, run_hist>>

(* Mutant of pose_update: the 'return' of lines 80-81 is missing, so that
   line 84 assigns and line 87 raises TypeError on None *)
pose_update_unguarded(waypoints, car_index, lines, position) ==
    IF waypoints = None THEN [car_index |-> Some(0), raised |-> "TypeError"]
    ELSE LET wps == Val(waypoints)
             start == pose_start(car_index, Val(lines))
         IN IF start >= Len(wps)
              THEN [car_index |-> Some(start), raised |-> "IndexError"]
              ELSE [car_index |-> Some(pose_scan(wps, position, start,
                                                 distance2(position, wps[start + 1]))),
                    raised |-> "none"]

(* The body of Detector.pose_cb on the shared state given: the index it
   leaves in shared_car_index and the exception it raises *)
pose_update(waypoints, car_index, lines, position) ==
    IF waypoints = None THEN [car_index |-> car_index, raised |-> "none"]
    ELSE LET wps == Val(waypoints)
             start == pose_start(car_index, Val(lines))
         IN IF start >= Len(wps)
              THEN \* line 84 has assigned; line 87 raises IndexError
                   [car_index |-> Some(start), raised |-> "IndexError"]
              ELSE [car_index |-> Some(pose_scan(wps, position, start,
                                                 distance2(position, wps[start + 1]))),
                    raised |-> "none"]

(* The largest element of a non-empty list of integers *)
MaxOf(list) == CHOOSE m \in {list[k] : k \in DOMAIN list} :
                   \A k \in DOMAIN list : list[k] <= m

(* Detector.pose_cb(msg), msg.pose.position = position *)
pose_cb(position) ==
    /\ Running
    /\ h_route' = None
    /\ LET r == pose_update(shared_waypoints, shared_car_index,
                            shared_stop_lines, position)
       IN /\ shared_car_index' = r.car_index
          /\ fault' = r.raised
    /\ h_last' = IF /\ shared_waypoints # None
                    /\ shared_car_index # None
                    /\ Val(shared_car_index) > MaxOf(Val(shared_stop_lines))
                   THEN "pose_cb_reset" ELSE "pose_cb"
    /\ pub_msg' = None
    /\ UNCHANGED <<config_vars, loop_vars, shared_waypoints, shared_stop_lines,
                   shared_camera_image, shared_traffic_lights, tl_map, run_hist>>

(* ImageDetector.image_cb(msg) *)
image_cb(msg) ==
    /\ Running
    /\ h_route' = None
    /\ variant = "image"
    /\ shared_camera_image' = Some(msg)
    /\ Quiet
    /\ h_last' = "image_cb"
    /\ UNCHANGED <<config_vars, loop_vars, shared_car_index, shared_waypoints,
                   shared_stop_lines, shared_traffic_lights, tl_map, run_hist>>

(* DummyDetector.traffic_cb(msg), msg.lights = lights *)
traffic_cb(lights) ==
    /\ Running
    /\ h_route' = None
    /\ variant = "dummy"
    /\ IF shared_waypoints = None
         THEN /\ fault' = "none"
              /\ UNCHANGED <<shared_traffic_lights, tl_map>>
         ELSE IF shared_traffic_lights = None
         THEN LET bound == bind_lights(shared_waypoints, lights, 1, <<>>, tl_map)
              IN /\ shared_traffic_lights' = Some(bound.tls)
                 /\ tl_map' = bound.map
                 /\ fault' = "none"
         ELSE LET updated == update_lights(lights, 1, Val(shared_traffic_lights))
              IN /\ shared_traffic_lights' = Some(updated.tls)
                 /\ fault' = IF updated.raised THEN "KeyError" ELSE "none"
                 /\ UNCHANGED tl_map
    /\ pub_msg' = None
    /\ h_last' = "traffic_cb"
    /\ UNCHANGED <<config_vars, loop_vars, shared_car_index, shared_waypoints,
                   shared_stop_lines, shared_camera_image, run_hist>>

(* Mutant of loop_stop_line: the 'continue' of line 62 moved after the
   increment of line 76 *)
loop_stop_line_counting ==
    /\ pc = "sleep"
    /\ h_route' = None
    /\ LET line == get_stop_line(shared_car_index, shared_stop_lines)
       IN IF line = None
            THEN /\ h_last' = "skip"
                 /\ state_count < MaxCount
                 /\ state_count' = state_count + 1
                 /\ UNCHANGED <<pc, stop_line, state, last_stop_line>>
            ELSE /\ h_last' = "stop_line"
                 /\ pc' = "state"
                 /\ stop_line' = line
                 /\ UNCHANGED debounce_vars
    /\ Quiet
    /\ UNCHANGED <<config_vars, shared_vars, camera_image, run_hist>>

(* Detector.loop, lines 58-62: rate.sleep(), get_stop_line(), and the
   'continue' when there is no stop line *)
loop_stop_line ==
    /\ pc = "sleep"
    /\ h_route' = None
    /\ LET line == get_stop_line(shared_car_index, shared_stop_lines)
       IN IF line = None
            THEN /\ h_last' = "skip"
                 /\ UNCHANGED <<pc, stop_line>>
            ELSE /\ h_last' = "stop_line"
                 /\ pc' = "state"
                 /\ stop_line' = line
    /\ Quiet
    /\ UNCHANGED <<config_vars, shared_vars, debounce_vars, camera_image, run_hist>>

(* Mutant of debounce: a stop line other than that of the tick before
   restarts the count *)
debounce_per_line(raw) ==
    LET line == Val(stop_line)
        publishes == state = raw /\ publish_cond(state_count, last_stop_line, line)
        same_raw == h_raw = Some(raw)
        same_line == same_raw /\ h_line = Some(line)
    IN /\ (state # raw \/ state_count < MaxCount)
       /\ IF state # raw
            THEN /\ state_count' = 0 + 1
                 /\ state' = raw
                 /\ pub_msg' = None
                 /\ UNCHANGED last_stop_line
            ELSE /\ IF publish_cond(state_count, last_stop_line, line)
                      THEN /\ last_stop_line' = Some(line)
                           /\ pub_msg' = Some([waypoint |-> line, state |-> raw])
                      ELSE /\ pub_msg' = None
                           /\ UNCHANGED last_stop_line
                 /\ state_count' = IF h_line = Some(line) THEN state_count + 1 ELSE 1
                 /\ UNCHANGED state
       /\ fault' = "none"
       /\ h_last' = "tick"
       /\ h_raw' = Some(raw)
       /\ h_line' = Some(line)
       /\ h_run' = IF same_raw THEN Min(h_run + 1, MaxRun) ELSE 1
       /\ h_line_run' = IF same_line THEN Min(h_line_run + 1, MaxRun) ELSE 1
       /\ h_pubs' = Min((IF same_line THEN h_pubs ELSE 0)
                        + (IF publishes THEN 1 ELSE 0), MaxPubs)
       /\ pc' = "sleep"
       /\ stop_line' = None

(* Mutant of debounce: the increment of line 76 is missing *)
debounce_uncounted(raw) ==
    LET line == Val(stop_line)
        publishes == state = raw /\ publish_cond(state_count, last_stop_line, line)
        same_raw == h_raw = Some(raw)
        same_line == same_raw /\ h_line = Some(line)
    IN /\ (state # raw \/ state_count < MaxCount)
       /\ IF state # raw
            THEN /\ state_count' = 0
                 /\ state' = raw
                 /\ pub_msg' = None
                 /\ UNCHANGED last_stop_line
            ELSE /\ IF publish_cond(state_count, last_stop_line, line)
                      THEN /\ last_stop_line' = Some(line)
                           /\ pub_msg' = Some([waypoint |-> line, state |-> raw])
                      ELSE /\ pub_msg' = None
                           /\ UNCHANGED last_stop_line
                 /\ UNCHANGED <<state_count, state>>
       /\ fault' = "none"
       /\ h_last' = "tick"
       /\ h_raw' = Some(raw)
       /\ h_line' = Some(line)
       /\ h_run' = IF same_raw THEN Min(h_run + 1, MaxRun) ELSE 1
       /\ h_line_run' = IF same_line THEN Min(h_line_run + 1, MaxRun) ELSE 1
       /\ h_pubs' = Min((IF same_line THEN h_pubs ELSE 0)
                        + (IF publishes THEN 1 ELSE 0), MaxPubs)
       /\ pc' = "sleep"
       /\ stop_line' = None

(* Mutant of debounce: the reset 'self.state_count = 0' of line 67 is
   missing *)
debounce_unreset(raw) ==
    LET line == Val(stop_line)
        publishes == state = raw /\ publish_cond(state_count, last_stop_line, line)
        same_raw == h_raw = Some(raw)
        same_line == same_raw /\ h_line = Some(line)
    IN /\ (state # raw \/ state_count < MaxCount)
       /\ IF state # raw
            THEN /\ state_count' = Min(state_count + 1, MaxCount)
                 /\ state' = raw
                 /\ pub_msg' = None
                 /\ UNCHANGED last_stop_line
            ELSE /\ IF publish_cond(state_count, last_stop_line, line)
                      THEN /\ last_stop_line' = Some(line)
                           /\ pub_msg' = Some([waypoint |-> line, state |-> raw])
                      ELSE /\ pub_msg' = None
                           /\ UNCHANGED last_stop_line
                 /\ state_count' = state_count + 1
                 /\ UNCHANGED state
       /\ fault' = "none"
       /\ h_last' = "tick"
       /\ h_raw' = Some(raw)
       /\ h_line' = Some(line)
       /\ h_run' = IF same_raw THEN Min(h_run + 1, MaxRun) ELSE 1
       /\ h_line_run' = IF same_line THEN Min(h_line_run + 1, MaxRun) ELSE 1
       /\ h_pubs' = Min((IF same_line THEN h_pubs ELSE 0)
                        + (IF publishes THEN 1 ELSE 0), MaxPubs)
       /\ pc' = "sleep"
       /\ stop_line' = None

(* Detector.loop, lines 66-76, with 'state' = raw: the debounce state and
   the publication. The locals are dead after line 76 and are cleared. *)
debounce(raw) ==
    LET line == Val(stop_line)
        publishes == state = raw /\ publish_cond(state_count, last_stop_line, line)
        same_raw == h_raw = Some(raw)
        same_line == same_raw /\ h_line = Some(line)
    IN /\ (state # raw \/ state_count < MaxCount)
       /\ IF state # raw
            THEN /\ state_count' = 0 + 1
                 /\ state' = raw
                 /\ pub_msg' = None
                 /\ UNCHANGED last_stop_line
            ELSE /\ IF publish_cond(state_count, last_stop_line, line)
                      THEN /\ last_stop_line' = Some(line)
                           /\ pub_msg' = Some([waypoint |-> line, state |-> raw])
                      ELSE /\ pub_msg' = None
                           /\ UNCHANGED last_stop_line
                 /\ state_count' = state_count + 1
                 /\ UNCHANGED state
       /\ fault' = "none"
       /\ h_last' = "tick"
       /\ h_raw' = Some(raw)
       /\ h_line' = Some(line)
       /\ h_run' = IF same_raw THEN Min(h_run + 1, MaxRun) ELSE 1
       /\ h_line_run' = IF same_line THEN Min(h_line_run + 1, MaxRun) ELSE 1
       /\ h_pubs' = Min((IF same_line THEN h_pubs ELSE 0)
                        + (IF publishes THEN 1 ELSE 0), MaxPubs)
       /\ pc' = "sleep"
       /\ stop_line' = None

(* Detector.loop, lines 64-76, DummyDetector: get_traffic_light_state under
   the mutex, then the debounce; an exception leaves loop() *)
loop_state_dummy ==
    /\ pc = "state"
    /\ h_route' = None
    /\ variant = "dummy"
    /\ LET r == dummy_light_state(shared_waypoints, shared_car_index,
                                  shared_traffic_lights, tl_map)
       IN IF r.raised = "none"
            THEN debounce(r.value)
            ELSE /\ fault' = r.raised
                 /\ pc' = "crashed"
                 /\ h_last' = "crash"
                 /\ pub_msg' = None
                 /\ UNCHANGED <<debounce_vars, stop_line, run_hist>>
    /\ UNCHANGED <<config_vars, shared_vars, camera_image>>

(* Detector.loop, line 64, ImageDetector.get_traffic_light_state, lines
   175-178, the part under the mutex: without a frame it returns UNKNOWN and
   the loop goes on to lines 66-76; with one it keeps a reference to it *)
loop_state_image ==
    /\ pc = "state"
    /\ h_route' = None
    /\ variant = "image"
    /\ IF shared_camera_image = None
         THEN /\ debounce(UNKNOWN)
              /\ UNCHANGED camera_image
         ELSE /\ camera_image' = shared_camera_image
              /\ pc' = "classify"
              /\ h_last' = "copy"
              /\ Quiet
              /\ UNCHANGED <<debounce_vars, stop_line, run_hist>>
    /\ UNCHANGED <<config_vars, shared_vars>>

(* Mutant of loop_classify: after the mutex is released the classifier is
   given self.shared_camera_image, not the local reference *)
loop_classify_shared ==
    /\ pc = "classify"
    /\ h_route' = None
    /\ \E s \in image_light_state(shared_camera_image) : debounce(s)
    /\ camera_image' = None
    /\ UNCHANGED <<config_vars, shared_vars>>

(* ImageDetector.get_traffic_light_state, lines 180-182, after the mutex is
   released: decoding and the classifier on the local frame, then lines
   66-76 of the loop *)
loop_classify ==
    /\ pc = "classify"
    /\ h_route' = None
    /\ \E s \in image_light_state(camera_image) : debounce(s)
    /\ camera_image' = None
    /\ UNCHANGED <<config_vars, shared_vars>>

Next ==
    \/ \E wps \in Routes : waypoints_cb(wps)
    \/ \E position \in Poses : pose_cb(position)
    \/ \E msg \in Frames : image_cb(msg)
    \/ \E lights \in LightArrays : traffic_cb(lights)
    \/ loop_stop_line
    \/ loop_state_dummy
    \/ loop_state_image
    \/ loop_classify

Spec == Init /\ [][Next]_vars

----------------------------------------------------------------------------
(* Properties *)

(* A step that ends a loop iteration which had a stop line: lines 64-76 ran *)
TickStep == pc # "sleep" /\ pc' = "sleep"
(* A step of pose_cb *)
PoseStep == h_last' \in {"pose_cb", "pose_cb_reset"} /\ pub_msg' = None
              /\ UNCHANGED <<loop_vars, shared_waypoints, run_hist>>
Event(line, s) == Some([waypoint |-> line, state |-> s])

(* C1, as stated: the tick that makes RED observed identically for
   threshold (3) consecutive ticks publishes (stop line, RED). *)
C1_PublishedOnThresholdTick ==
    [][(TickStep /\ h_raw' = Some(RED)
          /\ h_run = STATE_COUNT_THRESHOLD - 1 /\ h_run' = STATE_COUNT_THRESHOLD)
        => pub_msg' = Event(Val(stop_line), RED)]_vars

(* C1, amended: no tick that makes a raw state observed identically for at
   most threshold (3) consecutive ticks publishes; the next tick with the same
   raw state, the (threshold + 1)-th of the run, publishes (stop line of that
   tick, that state). *)
C1_PublishedAfterThresholdTicks ==
    [][TickStep =>
         /\ h_run' <= STATE_COUNT_THRESHOLD => pub_msg' = None
         /\ (h_run = STATE_COUNT_THRESHOLD /\ h_run' = STATE_COUNT_THRESHOLD + 1)
              => pub_msg' = Event(Val(stop_line), Val(h_raw'))]_vars

C1_Witness ==
    /\ h_last = "tick"
    /\ h_raw = Some(RED)
    /\ h_run = STATE_COUNT_THRESHOLD + 1
    /\ h_line_run = STATE_COUNT_THRESHOLD + 1
    /\ h_pubs = 1
    /\ pub_msg = Event(Val(h_line), RED)

(* C2: in a run of consecutive sampled ticks with the same raw state and the
   same stop line, at most one event is published, and once the run is longer
   than the threshold exactly one has been: the later ticks of the run publish
   nothing. *)
C2_OncePerRun ==
    /\ h_pubs <= 1
    /\ h_line_run > STATE_COUNT_THRESHOLD => h_pubs = 1

C2_Witness ==
    /\ h_last = "tick"
    /\ h_line_run > STATE_COUNT_THRESHOLD
    /\ h_pubs = 1
    /\ pub_msg = None

(* C3: a tick that starts with the counter above the threshold, samples the
   confirmed state and resolves a stop line other than the last published one
   publishes (that stop line, confirmed state), stores the stop line as the
   last published one, and only increments the counter. *)
C3_RepublishOnNewStopLine ==
    [][(TickStep /\ state_count > STATE_COUNT_THRESHOLD
          /\ h_raw' = Some(state) /\ last_stop_line # stop_line)
        => /\ pub_msg' = Event(Val(stop_line), state)
           /\ last_stop_line' = stop_line
           /\ state_count' = state_count + 1
           /\ state' = state]_vars

C3_Witness ==
    /\ h_last = "tick"
    /\ state_count > STATE_COUNT_THRESHOLD + 1
    /\ h_line_run = 1
    /\ h_run > STATE_COUNT_THRESHOLD
    /\ pub_msg = Event(Val(h_line), state)
    /\ last_stop_line = h_line

(* The states get_traffic_light_state may return in the current state *)
LightStateResults ==
    IF variant = "dummy"
      THEN {dummy_light_state(shared_waypoints, shared_car_index,
                              shared_traffic_lights, tl_map).value}
      ELSE image_light_state(shared_camera_image)

(* C4, as stated: without a route the vehicle index is undefined, the
   stop-line lookup returns none, the light-state source returns UNKNOWN and
   nothing has been published. *)
C4_NeutralWithoutRoute ==
    shared_waypoints = None =>
        /\ shared_car_index = None
        /\ get_stop_line(shared_car_index, shared_stop_lines) = None
        /\ LightStateResults = {UNKNOWN}
        /\ pub_msg = None
        /\ last_stop_line = None

(* C4, amended: without a route the vehicle index is undefined, the stop-line
   lookup returns none, the loop never samples the light state and nothing has
   been published; the ground-truth source returns UNKNOWN, and so does the
   image-driven source as long as no frame has arrived. *)
C4_NeutralWithoutRouteUnlessFrame ==
    shared_waypoints = None =>
        /\ shared_car_index = None
        /\ get_stop_line(shared_car_index, shared_stop_lines) = None
        /\ (variant = "dummy" \/ shared_camera_image = None)
              => LightStateResults = {UNKNOWN}
        /\ shared_traffic_lights = None
        /\ pc = "sleep"
        /\ h_raw = None
        /\ pub_msg = None
        /\ last_stop_line = None

C4_Witness ==
    /\ shared_waypoints = None
    /\ shared_camera_image # None
    /\ h_last = "skip"

(* C5: no handler and no loop iteration raises an exception. *)
C5_NoFault == fault = "none"

(* C6: a loop iteration whose stop-line lookup returns none leaves the
   confirmed state, the counter and the last published stop line unchanged,
   does not sample the light state and publishes nothing. *)
C6_SkippedTickChangesNothing ==
    [][(pc = "sleep" /\ h_last' \in {"skip", "stop_line"}
          /\ get_stop_line(shared_car_index, shared_stop_lines) = None)
        => /\ UNCHANGED debounce_vars
           /\ UNCHANGED run_hist
           /\ pc' = "sleep"
           /\ pub_msg' = None]_vars

C6_Witness ==
    /\ h_last = "skip"
    /\ state_count > 0
    /\ last_stop_line # None

(* The vehicle indices the lookup is tried on *)
CarIndexes == 0 .. 4
ElementsOf(list) == {list[k] : k \in DOMAIN list}

(* C7: on the stored stop lines, the lookup returns for every vehicle index
   the minimum stored index strictly greater than it, and none exactly when
   the vehicle index is at least the maximum stored index; it returns none
   for an undefined vehicle index. *)
C7_NextStopLineIsMinimumAhead ==
    /\ shared_car_index = None
         => get_stop_line(shared_car_index, shared_stop_lines) = None
    /\ shared_stop_lines # None =>
         \A ci \in CarIndexes :
            LET stored == ElementsOf(Val(shared_stop_lines))
                ahead == {i \in stored : i > ci}
                r == get_stop_line(Some(ci), shared_stop_lines)
            IN /\ (r = None) <=> (\A i \in stored : ci >= i)
               /\ r # None => (Val(r) \in ahead /\ \A i \in ahead : Val(r) <= i)

C7_Witness ==
    /\ shared_stop_lines = Some(<<1, 1, 2>>)
    /\ shared_car_index = Some(1)
    /\ pc = "state"
    /\ stop_line = Some(2)

(* C8: with a route loaded, a pose update never decreases a defined vehicle
   index unless the stored index exceeds the last stop line, and in that case
   the result is that of a scan restarted from index 0. *)
C8_IndexNeverDecreasesButReset ==
    [][(PoseStep /\ shared_waypoints # None /\ shared_car_index # None) =>
         LET wps == Val(shared_waypoints)
             last == Val(shared_stop_lines)[Len(Val(shared_stop_lines))]
         IN IF Val(shared_car_index) > last
              THEN \/ Len(wps) = 0 /\ shared_car_index' = Some(0)
                   \/ Len(wps) > 0 /\ \E position \in Poses :
                        shared_car_index' =
                          Some(pose_scan(wps, position, 0, distance2(position, wps[1])))
              ELSE Val(shared_car_index') >= Val(shared_car_index)]_vars

C8_Witness ==
    /\ h_last = "pose_cb_reset"
    /\ shared_car_index = Some(0)
    /\ shared_waypoints = Some(<<W0, W1, W2, W3>>)

(* C9: the vehicle index is undefined or a valid index of the stored route. *)
C9_IndexInRoute ==
    shared_car_index # None =>
        /\ shared_waypoints # None
        /\ 0 <= Val(shared_car_index)
        /\ Val(shared_car_index) <= Len(Val(shared_waypoints)) - 1

(* C10, as stated: the stored stop-line indices are sorted ascending and
   pairwise distinct. *)
C10_SortedDistinct ==
    shared_stop_lines # None =>
        \A j, k \in DOMAIN Val(shared_stop_lines) :
            j < k => Val(shared_stop_lines)[j] < Val(shared_stop_lines)[k]

(* C10, amended: the stored stop-line indices are sorted in non-decreasing
   order and there is one per configured stop-line position; two positions
   that bind to the same closest waypoint give the same index twice. *)
C10_SortedWithRepeats ==
    shared_stop_lines # None =>
        /\ Len(Val(shared_stop_lines)) = Len(stop_line_positions)
        /\ \A j, k \in DOMAIN Val(shared_stop_lines) :
              j < k => Val(shared_stop_lines)[j] <= Val(shared_stop_lines)[k]
        /\ ElementsOf(Val(shared_stop_lines)) =
              {get_closest_waypoint(shared_waypoints, stop_line_positions[k]) :
                  k \in DOMAIN stop_line_positions}

C10_Witness ==
    /\ shared_stop_lines = Some(<<1, 1, 2>>)
    /\ shared_waypoints = Some(<<W0, W1, W2, W3>>)

(* What DummyDetector.get_traffic_light_state does in the current state *)
DummyResult == dummy_light_state(shared_waypoints, shared_car_index,
                                 shared_traffic_lights, tl_map)
(* The bound light indices ahead of a defined vehicle index *)
LightsAhead == {i \in DOMAIN tl_map : i > Val(shared_car_index)}
NearestLightAhead == CHOOSE i \in LightsAhead : \A j \in LightsAhead : i <= j
(* The distance between two waypoints exceeds 150 units *)
Beyond150(p, q) == distance2(p, q) > 150 * 150 * Scale * Scale

(* What C11 gives as the value of the ground-truth currentState for a
   defined vehicle index *)
C11_Value ==
    IF shared_traffic_lights = None \/ LightsAhead = {} THEN UNKNOWN
    ELSE IF IndexRaises(Val(shared_waypoints), NearestLightAhead)
            \/ IndexRaises(Val(shared_waypoints), Val(shared_car_index))
           THEN UNKNOWN
    ELSE IF Beyond150(Val(shared_waypoints)[NearestLightAhead + 1],
                      Val(shared_waypoints)[Val(shared_car_index) + 1])
           THEN UNKNOWN
    ELSE Val(shared_traffic_lights)[tl_map[NearestLightAhead]].state

(* C11: with a defined vehicle index, the ground-truth currentState returns
   UNKNOWN when no bound light index is above the vehicle index or when the
   waypoint of the smallest such index is more than 150 units from the
   vehicle's waypoint (whatever the light reports), and otherwise the state
   last reported for that light. *)
C11_ReturnsNearestLightAhead ==
    (variant = "dummy" /\ shared_car_index # None) =>
        DummyResult = Returns(C11_Value)

(* The same for the calls that return, and when the others raise: only with
   an undefined vehicle index or an index outside the stored route. *)
C11_NearestLightAheadWithinRadius ==
    variant = "dummy" =>
        IF DummyResult.raised # "none"
          THEN /\ shared_traffic_lights # None
               /\ \/ shared_car_index = None
                  \/ Val(shared_car_index) >= Len(Val(shared_waypoints))
                  \/ NearestLightAhead >= Len(Val(shared_waypoints))
          ELSE IF shared_traffic_lights = None \/ shared_car_index = None
                  \/ LightsAhead = {}
                 THEN DummyResult.value = UNKNOWN
          ELSE IF Beyond150(Val(shared_waypoints)[NearestLightAhead + 1],
                            Val(shared_waypoints)[Val(shared_car_index) + 1])
                 THEN DummyResult.value = UNKNOWN
          ELSE DummyResult.value =
                  Val(shared_traffic_lights)[tl_map[NearestLightAhead]].state

C11_Witness ==
    /\ variant = "dummy"
    /\ h_last = "tick"
    /\ h_raw = Some(UNKNOWN)
    /\ shared_car_index = Some(0)
    /\ LightsAhead = {2}
    /\ Val(shared_traffic_lights)[tl_map[2]].state = RED

----------------------------------------------------------------------------
(* C12, as stated: in the state a route message leaves, the stored route is
   the waypoint sequence of that message and the vehicle index is
   undefined. *)
C12_RouteReplaced ==
    h_route # None => shared_waypoints = h_route /\ shared_car_index = None

(* C12, as the code has it: a route message always leaves the vehicle index
   undefined, and only a pose update defines it again; with a non-empty
   stop-line configuration the stored route becomes the waypoint sequence of
   the message, with an empty one (lines 103-104) the stored route is left
   as it was. *)
C12_RouteReplacedUnlessNoStopLines ==
    [][ /\ h_route' # None =>
             /\ shared_car_index' = None
             /\ IF Len(stop_line_positions) = 0
                  THEN shared_waypoints' = shared_waypoints
                  ELSE shared_waypoints' = h_route'
        /\ (shared_car_index = None /\ shared_car_index' # None) =>
             h_last' \in {"pose_cb", "pose_cb_reset"} ]_vars

(* A route message replaced a longer route (a light is still bound to
   waypoint 2 of the old one) while the vehicle index was defined *)
C12_Witness ==
    /\ h_route = Some(<<W0, W1>>)
    /\ shared_waypoints = Some(<<W0, W1>>)
    /\ shared_car_index = None
    /\ 2 \in DOMAIN tl_map
    /\ state_count > 0

----------------------------------------------------------------------------
(* C13: the light bindings are created by a light-array message handled
   while a route is loaded; once they exist, no step (later light-array
   message, route reload, or any other) changes their key set, the waypoint
   index bound to a key, or tl_map: only the reported state of a bound light
   is overwritten. *)
C13_BindingsFrozen ==
    [][ /\ (shared_traffic_lights = None /\ shared_traffic_lights' # None) =>
             (h_last' = "traffic_cb" /\ shared_waypoints # None)
        /\ shared_traffic_lights # None =>
             /\ shared_traffic_lights' # None
             /\ DOMAIN Val(shared_traffic_lights') = DOMAIN Val(shared_traffic_lights)
             /\ \A key \in DOMAIN Val(shared_traffic_lights) :
                    Val(shared_traffic_lights')[key].index =
                        Val(shared_traffic_lights)[key].index
             /\ tl_map' = tl_map ]_vars

(* After a reload with a shorter route, a light-array message has
   overwritten the state of the light bound as RED to waypoint 2 of the
   former route, and the binding is still to waypoint 2 *)
C13_Witness ==
    /\ h_last = "traffic_cb"
    /\ fault = "none"
    /\ shared_waypoints = Some(<<W0, W1>>)
    /\ DOMAIN tl_map = {1, 2}
    /\ shared_traffic_lights # None
    /\ Val(shared_traffic_lights)[tl_map[2]] = LightData(2, GREEN)

----------------------------------------------------------------------------
(* C14: in the image variant the step of the loop that holds the mutex only
   copies the reference to the stored frame (or answers UNKNOWN without a
   frame) and never classifies; the classifier runs in a later step, during
   which the mutex is free: the image handler can run, it replaces the
   stored frame and leaves the copied reference alone; and the raw state of
   the tick is the classification of the frame that was copied. *)
C14_ClassifierOutsideMutex ==
    [][ variant = "image" =>
          /\ (pc = "state" /\ pc' = "sleep") =>
                (shared_camera_image = None /\ h_raw' = Some(UNKNOWN))
          /\ (pc = "state" /\ pc' = "classify") =>
                (camera_image' = shared_camera_image /\ UNCHANGED <<h_raw, debounce_vars>>)
          /\ pc = "classify" =>
                /\ camera_image # None
                /\ \A msg \in Frames : ENABLED image_cb(msg)
          /\ (pc = "classify" /\ h_last' = "image_cb") =>
                /\ pc' = "classify"
                /\ camera_image' = camera_image
                /\ shared_camera_image' \in {Some(msg) : msg \in Frames}
          /\ (pc = "classify" /\ pc' = "sleep") =>
                h_raw' = Some(get_classification(Val(camera_image))) ]_vars

(* A tick has classified frame f1 (red) although the image handler had
   stored frame f2 (green) before the classifier returned *)
C14_Witness ==
    /\ variant = "image"
    /\ h_last = "tick"
    /\ h_raw = Some(RED)
    /\ shared_camera_image = Some("f2")

----------------------------------------------------------------------------
(* C15: an event is published only by a tick that has a stop line; it
   carries that stop line and the confirmed state, the raw state of the tick
   equals the confirmed state, and the threshold (3) sampled ticks just
   before it had that same raw state. A tick whose raw state differs from
   the confirmed state publishes nothing. *)
C15_PublishedOnlyWhenConfirmed ==
    [][ /\ pub_msg' # None =>
             /\ TickStep
             /\ stop_line # None
             /\ pub_msg' = Event(Val(stop_line), state)
             /\ h_raw' = Some(state)
             /\ h_raw = Some(state)
             /\ h_run >= STATE_COUNT_THRESHOLD
        /\ (TickStep /\ h_raw' # Some(state)) => pub_msg' = None ]_vars

(* GREEN is published for stop line 2 by the tick after three GREEN ticks,
   the confirmed state having been another one before them *)
C15_Witness ==
    /\ h_last = "tick"
    /\ pub_msg = Event(2, GREEN)
    /\ state = GREEN
    /\ state_count = STATE_COUNT_THRESHOLD + 1
    /\ h_run = STATE_COUNT_THRESHOLD + 1

----------------------------------------------------------------------------
(* What C16 says of a pose update at 'position' that starts its scan of the
   route wps at index s and leaves the index i *)
ScanResult(wps, position, s, i) ==
    LET d(k) == distance2(position, wps[k + 1])
    IN /\ s <= i
       /\ i <= Len(wps) - 1
       /\ \A k \in s .. (i - 1) : d(k + 1) <= d(k)
       /\ (i = Len(wps) - 1 \/ d(i + 1) > d(i))

(* C16: a pose update with a route loaded scans from s, the previous index,
   or 0 if that was undefined or beyond the last stop line, and leaves an
   index i such that the distances from the pose to waypoints s..i are
   non-increasing and i is the last waypoint or waypoint i+1 is strictly
   farther than waypoint i. *)
C16_ScanStopsAtFirstIncrease ==
    [][\A position \in Poses :
         (pose_cb(position) /\ shared_waypoints # None) =>
            ScanResult(Val(shared_waypoints), position,
                       pose_start(shared_car_index, Val(shared_stop_lines)),
                       Val(shared_car_index'))]_vars

(* The same for the routes that have a waypoint *)
C16_ScanOnNonEmptyRoute ==
    [][\A position \in Poses :
         (pose_cb(position) /\ shared_waypoints # None
            /\ Len(Val(shared_waypoints)) > 0) =>
            /\ fault' = "none"
            /\ ScanResult(Val(shared_waypoints), position,
                          pose_start(shared_car_index, Val(shared_stop_lines)),
                          Val(shared_car_index'))]_vars

----------------------------------------------------------------------------
(* C17: between the stop-line lookup of a tick (line 60) and its light-state
   lookup (line 64) no step changes the vehicle index, the route or the
   stop-line list. *)
C17_TickReadsOneSnapshot ==
    [][pc = "state" =>
         UNCHANGED <<shared_car_index, shared_waypoints, shared_stop_lines>>]_vars

----------------------------------------------------------------------------
(* The control loop is a thread of its own that rospy.Rate wakes for ever
   (lines 56-58): each of its steps is taken if it stays possible. The
   handlers run when a message arrives, which may be never. The messages of
   the fair runs: one route, a pose at its start and one at its end, every
   frame, a light array of one light and one of two. *)
FairRoutes == { <<W0, W1, W2, W3>> }
FairPoses == { W0, W3 }
FairLightArrays == { <<Light(LAj, GREEN)>>,
                     <<Light(LA, RED), Light(LB, GREEN)>> }

FairNext ==
    \/ \E wps \in FairRoutes : waypoints_cb(wps)
    \/ \E position \in FairPoses : pose_cb(position)
    \/ \E msg \in Frames : image_cb(msg)
    \/ \E lights \in FairLightArrays : traffic_cb(lights)
    \/ loop_stop_line
    \/ loop_state_dummy
    \/ loop_state_image
    \/ loop_classify

FairSpec ==
    /\ Init
    /\ [][FairNext]_vars
    /\ WF_vars(loop_stop_line)
    /\ WF_vars(loop_state_dummy)
    /\ WF_vars(loop_state_image)
    /\ WF_vars(loop_classify)

(* C18: if the loop is never ended by a fault, no tick is skipped for want
   of a stop line, and from some tick on the raw state is always x, then an
   event carrying x is published at some time. *)
C18_ConstantStateIsPublished ==
    \A x \in {RED, GREEN, UNKNOWN} :
        ([]Running /\ [](h_last # "skip") /\ <>[](h_raw = Some(x)))
            => <>(pub_msg # None /\ Val(pub_msg).state = x)

(* With no frame ever stored the raw state is UNKNOWN on every tick, and the
   image variant publishes UNKNOWN *)
C18_Witness ==
    /\ variant = "image"
    /\ shared_camera_image = None
    /\ h_last = "tick"
    /\ pub_msg # None
    /\ Val(pub_msg).state = UNKNOWN

----------------------------------------------------------------------------
(* C19: a tick whose raw state is the confirmed state only increments the
   counter, whether or not its stop line is that of the tick before; while
   the counter is below the threshold it publishes nothing, and the tick that
   finds the counter equal to the threshold publishes the one event of the
   confirmation window, with the stop line resolved on that very tick. *)
C19_StopLineChangeKeepsCount ==
    [][(TickStep /\ h_raw' = Some(state)) =>
         /\ state' = state
         /\ state_count' = state_count + 1
         /\ state_count < STATE_COUNT_THRESHOLD =>
               (pub_msg' = None /\ last_stop_line' = last_stop_line)
         /\ state_count = STATE_COUNT_THRESHOLD =>
               (pub_msg' = Event(Val(stop_line), state) /\ last_stop_line' = stop_line)]_vars

(* The stop line went from 1 to 2 inside the confirmation window of RED:
   the fourth RED tick publishes (2, RED), the second tick with stop line 2 *)
C19_Witness ==
    /\ h_last = "tick"
    /\ h_raw = Some(RED)
    /\ h_run = STATE_COUNT_THRESHOLD + 1
    /\ state_count = STATE_COUNT_THRESHOLD + 1
    /\ h_line_run = 2
    /\ h_pubs = 1
    /\ pub_msg = Event(2, RED)

----------------------------------------------------------------------------
(* C20: every waypoint index held by the light bindings and by tl_map is an
   index of the route stored now. *)
C20_BoundIndicesInRoute ==
    shared_traffic_lights # None =>
        LET last == Len(Val(shared_waypoints)) - 1
        IN /\ \A i \in DOMAIN tl_map : i \in 0 .. last
           /\ \A key \in DOMAIN Val(shared_traffic_lights) :
                  Val(shared_traffic_lights)[key].index \in 0 .. last

====
